---- MODULE Spec2Model ----
(***************************************************************************)
(* Frame loop / swapchain lifecycle of the VulkanAppBase-derived           *)
(* application (TriangleBuffered), the early Clear tutorial's frame loop,  *)
(* and the PipelineBuilder of AppBase.                                     *)
(*                                                                         *)
(* The CPU side is one thread; its position is pc.  The GPU completes      *)
(* submitted command buffers asynchronously (GpuComplete) and the window   *)
(* system changes the framebuffer size asynchronously (EnvResize,          *)
(* EnvInput), so draw_frame and recreate_swapchain are cut at their        *)
(* blocking calls and driver calls.                                        *)
(***************************************************************************)
EXTENDS Integers, Sequences, FiniteSets, TLC

VARIABLES
    pc,                   \* position of the CPU thread
    m_CurrentFrame,       \* frame-slot index
    m_InFlightFences,     \* slot -> TRUE when the fence is signaled
    gpuPending,           \* slot -> submissions of the slot's command buffer not yet completed
    m_FramebufferResized, \* flag set by framebuffer_size_callback
    fbSize,               \* the window's current framebuffer size <<w, h>>
    pendingEvents,        \* window events queued for glfwPollEvents / glfwWaitEvents
    rcSize,               \* recreate_swapchain's locals <<width, height>>
    rcReturn,             \* call site recreate_swapchain returns to
    m_Swapchain,          \* handle of the swapchain last created, 0 before the first
    swapSize,             \* extent of the swapchain last created
    res1,                 \* result of the last waitForFences ("None" before the first)
    res2,                 \* result of the last acquireNextImageKHR ("None" before the first)
    callOps,              \* driver operations issued by the current / last draw_frame call
    fenceObserved,        \* slot -> fence seen signaled by waitForFences since the slot's last submit
    everSubmitted,        \* slot -> the slot's command buffer has been submitted at least once
    rcEnteredZero,        \* the running / last recreate_swapchain was entered with a zero size
    rcWaited,             \* the running / last recreate_swapchain has returned from glfwWaitEvents
    \* ---- PipelineBuilder and the device objects it creates ----
    m_PipelineType,       \* "Graphics" or "Compute"
    m_ShaderInfo,         \* queued shader stages (sequence of stage kinds)
    m_ShaderModules,      \* module handles kept by the builder
    topology,             \* state.inputAssembly.topology
    patchControlPoints,   \* state.tessellationState.patchControlPoints
    viewports,            \* state.viewportState.viewports.size()
    scissors,             \* state.viewportState.scissors.size()
    moduleDestroys,       \* device: module handle h (1..Len) -> number of destroyShaderModule calls
    layoutDestroys,       \* device: layout handle h (1..Len) -> number of destroyPipelineLayout calls
    buildResult,          \* outcome of the last build() / add_shader_stage call
    buildModules,         \* module handles created by the last build() call
    buildLayout,          \* layout handle created by the last build() call, 0 if none
    buildReturned,        \* build() returned a pipeline (TRUE) in the last call
    builds,               \* number of build() calls made so far
    depthClamp,     \* state.rasterizationState.depthClamp
    lineWidth,            \* state.rasterizationState.lineWidth
    deviceFeatures,       \* features enabled on the device handed to build()
    sampleShadingEnable,  \* state.multisampleState.sampleShadingEnable
    minSampleShading,     \* state.multisampleState.minSampleShading (a float)
    logicOpEnable,        \* state.colorBlendState.logicOpEnable
    logicOp,              \* state.colorBlendState.logicOp
    dynamicStates,        \* state.dynamicStates: the list of dynamic states
    m_RenderPass,         \* PipelineBuilder::m_RenderPass (0: null handle)
    m_SubpassIndex,       \* PipelineBuilder::m_SubpassIndex
    thrown,               \* a setter call has ended by throwing std::runtime_error
    \* ---- swapchain resources of the VulkanAppBase-derived application ----
    m_Images,             \* VulkanAppBase::m_Images: images <<swapchain, k>>
    m_ImageViews,         \* VulkanAppBase::m_ImageViews: view handles <<swapchain, k>>
    base_m_Framebuffers,  \* VulkanAppBase::m_Framebuffers (hidden by the derived member)
    m_Framebuffers,       \* TriangleBuffered::m_Framebuffers: framebuffer handles
    m_SwapExtent,         \* VulkanAppBase::m_SwapExtent
    m_SwapFormat,         \* VulkanAppBase::m_SwapFormat
    swapchains,           \* device: swapchain handle g (1..Len) -> [images, destroys]
    viewDestroys,         \* device: view <<g, k>> -> viewDestroys[g][k] destroyImageView calls
    framebuffers,         \* device: framebuffer handle h (1..Len) -> [view, destroys]
    cmdBuffersFreed,      \* freeCommandBuffers has been called on m_CommandBuffers
    res3,                 \* result of presentKHR in the current / last draw_frame ("None" if none)
    presentResized,       \* m_FramebufferResized was set when that present returned
    lastSlot,             \* slot of the most recent queue submission, -1 before the first
    objectCreates,        \* device: object kind -> number of times the application created it
    objectDestroys,       \* device: object kind -> number of times the application destroyed it
    presentQueue          \* presentation engine: slots of the queued presents whose wait on
                          \* the slot's render-finished semaphore has not been executed yet

frameVars == <<pc, m_CurrentFrame, m_InFlightFences, gpuPending, m_FramebufferResized,
               fbSize, pendingEvents, rcSize, rcReturn, m_Swapchain, swapSize, res1,
               res2, callOps, fenceObserved, everSubmitted, rcEnteredZero, rcWaited>>

setterVars == <<sampleShadingEnable, minSampleShading, logicOpEnable, logicOp,
                dynamicStates, m_RenderPass, m_SubpassIndex, thrown>>

builderVars == <<m_PipelineType, m_ShaderInfo, m_ShaderModules, topology,
                 patchControlPoints, viewports, scissors, moduleDestroys,
                 layoutDestroys, buildResult, buildModules, buildLayout, buildReturned,
                 builds, depthClamp, lineWidth, deviceFeatures, setterVars>>

resVars == <<m_Images, m_ImageViews, base_m_Framebuffers, m_Framebuffers, m_SwapExtent,
             m_SwapFormat, swapchains, viewDestroys, framebuffers, cmdBuffersFreed>>

objVars == <<objectCreates, objectDestroys>>

lifeVars == <<resVars, res3, presentResized, lastSlot, objVars, presentQueue>>

vars == <<frameVars, builderVars, lifeVars>>

(***************************************************************************)
(* Constants of the program and bounds of the model                        *)
(***************************************************************************)
m_FramesInFlight == 2

\* cap on outstanding submissions per slot (never reached by the code as written)
MaxPending == 2

Slots == 0 .. (m_FramesInFlight - 1)

\* framebuffer sizes the window system reports: minimized, degenerate, two real sizes
FbSizes == {<<0, 0>>, <<0, 1>>, <<1, 1>>, <<2, 1>>}

AcquireResults == {"Success", "SuboptimalKHR", "ErrorOutOfDateKHR", "ErrorDeviceLost"}

PresentResults == {"Success", "SuboptimalKHR", "ErrorOutOfDateKHR", "ErrorDeviceLost"}

WaitResults == {"Success", "ErrorDeviceLost"}

RecreatePcs == {"rc_enter", "rc_get", "rc_wait", "rc_idle", "rc_destroy", "rc_create",
                "rc_rebuild"}

\* cap on the number of swapchains created over the application's life
MaxSwapchains == 2

\* the format the default format selection settles on, and the values an
\* unassigned vk::Format member can hold
SurfaceFormat == "B8G8R8A8Srgb"

Formats == {"Undefined", SurfaceFormat}

\* number of images the driver gives a swapchain of the given extent: fixed for a
\* given surface state, not the same for every extent
ImageCount(extent) == IF extent[1] >= 2 THEN 3 ELSE 2

TotalPending == gpuPending[0] + gpuPending[1]

\* A float argument or field: not-a-number, or a value counted in halves (2 is 1.0f).
Float(v) == [nan |-> FALSE, v |-> v]

NaN == [nan |-> TRUE, v |-> 0]

\* a < b on floats: false as soon as an operand is not a number
FloatLess(a, b) == ~a.nan /\ ~b.nan /\ a.v < b.v

(***************************************************************************)
(* Initial state: the members as the constructors leave them               *)
(***************************************************************************)
\* Frame-loop members at the given position of the CPU thread.  The fences read as
\* signaled, the way create_sync_objects creates them; nothing reads them earlier.
InitFrameWith(start, size) ==
    /\ pc = start
    /\ m_CurrentFrame = 0
    /\ m_InFlightFences = [i \in Slots |-> TRUE]
    /\ gpuPending = [i \in Slots |-> 0]
    /\ m_FramebufferResized = FALSE
    /\ fbSize = size
    /\ pendingEvents = {}
    /\ rcSize = <<0, 0>>
    /\ rcReturn = "none"
    /\ m_Swapchain = 0
    /\ swapSize = <<0, 0>>
    /\ res1 = "None"
    /\ res2 = "None"
    /\ callOps = {}
    /\ fenceObserved = [i \in Slots |-> FALSE]
    /\ everSubmitted = [i \in Slots |-> FALSE]
    /\ rcEnteredZero = FALSE
    /\ rcWaited = FALSE

\* The window is created with a fixed non-zero size.
InitFrameAt(start) == InitFrameWith(start, <<1, 1>>)

\* The objects the application creates once for its whole run: the logical device
\* and its queues, the two command pools, the per-slot command buffers and the
\* per-slot semaphores and fences.
ObjectKinds == {"device", "queues", "commandPools", "commandBuffers", "syncObjects"}

\* One create call for each kind in kinds.
CreateObjects(counts, kinds) ==
    [k \in ObjectKinds |-> IF k \in kinds THEN counts[k] + 1 ELSE counts[k]]

\* One destroy (or free) call for each kind in kinds.
DestroyObjects(counts, kinds) ==
    [k \in ObjectKinds |-> IF k \in kinds THEN counts[k] + 1 ELSE counts[k]]

\* Members and device objects before init(): the vectors are empty, vk::Extent2D is
\* zero-initialised, vk::Format has no initialiser and holds an indeterminate value.
InitLifeAs(format) ==
    /\ m_Images = <<>>
    /\ m_ImageViews = <<>>
    /\ base_m_Framebuffers = <<>>
    /\ m_Framebuffers = <<>>
    /\ m_SwapExtent = <<0, 0>>
    /\ m_SwapFormat = format
    /\ swapchains = <<>>
    /\ viewDestroys = <<>>
    /\ framebuffers = <<>>
    /\ cmdBuffersFreed = FALSE
    /\ res3 = "None"
    /\ presentResized = FALSE
    /\ lastSlot = -1
    /\ objectCreates = [k \in ObjectKinds |-> 0]
    /\ objectDestroys = [k \in ObjectKinds |-> 0]
    /\ presentQueue = <<>>

\* PipelineBuilder(type) as constructed; features: what the device that build() will
\* be given has enabled.
InitBuilderOn(type, features) ==
    /\ m_PipelineType = type
    /\ m_ShaderInfo = <<>>
    /\ m_ShaderModules = <<>>
    /\ topology = "TriangleList"
    /\ patchControlPoints = 0
    /\ viewports = 0
    /\ scissors = 0
    /\ moduleDestroys = <<>>
    /\ layoutDestroys = <<>>
    /\ buildResult = "none"
    /\ buildModules = {}
    /\ buildLayout = 0
    /\ buildReturned = FALSE
    /\ builds = 0
    /\ depthClamp = FALSE
    /\ lineWidth = 1
    /\ deviceFeatures = features
    /\ sampleShadingEnable = FALSE
    /\ minSampleShading = Float(2)
    /\ logicOpEnable = FALSE
    /\ logicOp = "NoOp"
    /\ dynamicStates = <<>>
    /\ m_RenderPass = 0
    /\ m_SubpassIndex = 0
    /\ thrown = FALSE

InitBuilderAs(type) == InitBuilderOn(type, {})

\* TriangleBuffered app; in main: the base constructor has run, init() is about to.
Init ==
    /\ InitFrameAt("init")
    /\ InitBuilderAs("Graphics")
    /\ \E format \in Formats : InitLifeAs(format)

(***************************************************************************)
(* Environment: the GPU and the window system                              *)
(***************************************************************************)
\* The GPU finishes one submission of slot i and signals the fence given to submit.
GpuComplete(i) ==
    /\ gpuPending[i] > 0
    /\ gpuPending' = [gpuPending EXCEPT ![i] = @ - 1]
    /\ m_InFlightFences' = [m_InFlightFences EXCEPT ![i] = TRUE]
    /\ UNCHANGED <<pc, m_CurrentFrame, m_FramebufferResized, fbSize, pendingEvents,
                   rcSize, rcReturn, m_Swapchain, swapSize, res2, callOps,
                   fenceObserved, everSubmitted, rcEnteredZero, rcWaited>>
    /\ UNCHANGED <<res1, builderVars, lifeVars>>

\* The window exists from create_window_and_surface (in init) to glfwDestroyWindow
\* (at the end of destroy) or the end of the process.
WindowOpen == pc \notin {"init", "exited", "done"}

\* The user resizes, minimizes or restores the window: the size changes at once,
\* the notification is queued until the application polls or waits for events.
EnvResize(s) ==
    /\ WindowOpen
    /\ s # fbSize
    /\ fbSize' = s
    /\ pendingEvents' = pendingEvents \cup {"size"}
    /\ UNCHANGED <<pc, m_CurrentFrame, m_InFlightFences, gpuPending, m_FramebufferResized,
                   rcSize, rcReturn, m_Swapchain, swapSize, res2, callOps,
                   fenceObserved, everSubmitted, rcEnteredZero, rcWaited>>
    /\ UNCHANGED <<res1, builderVars, lifeVars>>

\* Any other window event (key, mouse): wakes glfwWaitEvents, runs no resize callback.
EnvInput ==
    /\ WindowOpen
    /\ "input" \notin pendingEvents
    /\ pendingEvents' = pendingEvents \cup {"input"}
    /\ UNCHANGED <<pc, m_CurrentFrame, m_InFlightFences, gpuPending, m_FramebufferResized,
                   fbSize, rcSize, rcReturn, m_Swapchain, swapSize, res2, callOps,
                   fenceObserved, everSubmitted, rcEnteredZero, rcWaited>>
    /\ UNCHANGED <<res1, builderVars, lifeVars>>

\* framebuffer_size_callback, run by GLFW for every queued size event.
ResizedAfterEvents(flag, events) == flag \/ ("size" \in events)

(***************************************************************************)
(* TriangleBuffered::run and draw_frame                                    *)
(***************************************************************************)
\* run(): glfwPollEvents() dispatches the queued events, then draw_frame() is called.
PollEvents ==
    /\ pc = "poll"
    /\ m_FramebufferResized' = ResizedAfterEvents(m_FramebufferResized, pendingEvents)
    /\ pendingEvents' = {}
    /\ pc' = "wait_fence"
    /\ UNCHANGED <<m_CurrentFrame, m_InFlightFences, gpuPending, fbSize, rcSize, rcReturn,
                   m_Swapchain, swapSize, res2, callOps, fenceObserved, everSubmitted,
                   rcEnteredZero, rcWaited>>
    /\ UNCHANGED <<res1, builderVars, lifeVars>>

\* Variant: the wait is issued on the other slot's fence.
FenceToWaitOther == (m_CurrentFrame + 1) % m_FramesInFlight

\* The slot whose fence draw_frame waits on.
FenceToWait == m_CurrentFrame

\* Variant: the wait returns at once (timeout 0) and its result is taken as success.
DF_WaitFenceNoBlock(r) ==
    /\ pc = "wait_fence"
    /\ callOps' = {}
    /\ res1' = r
    /\ IF r = "Success"
         THEN /\ fenceObserved' = [fenceObserved EXCEPT ![FenceToWait] = TRUE]
              /\ pc' = "acquire"
         ELSE /\ pc' = "exited"
              /\ UNCHANGED fenceObserved
    /\ UNCHANGED <<m_CurrentFrame, m_InFlightFences, gpuPending, m_FramebufferResized,
                   fbSize, pendingEvents, rcSize, rcReturn, m_Swapchain, swapSize, res2,
                   everSubmitted, rcEnteredZero, rcWaited>>
    /\ res3' = "None"
    /\ presentResized' = FALSE
    /\ UNCHANGED <<builderVars, resVars, lastSlot, objVars, presentQueue>>

\* waitForFences(m_InFlightFences[m_CurrentFrame], true, UINT64_MAX): blocks until the
\* fence is signaled; any result other than success is fatal.
DF_WaitFence(r) ==
    /\ pc = "wait_fence"
    /\ callOps' = {}
    /\ res1' = r
    /\ IF r = "Success"
         THEN /\ m_InFlightFences[FenceToWait]
              /\ fenceObserved' = [fenceObserved EXCEPT ![FenceToWait] = TRUE]
              /\ pc' = "acquire"
         ELSE /\ pc' = "exited"
              /\ UNCHANGED fenceObserved
    /\ UNCHANGED <<m_CurrentFrame, m_InFlightFences, gpuPending, m_FramebufferResized,
                   fbSize, pendingEvents, rcSize, rcReturn, m_Swapchain, swapSize, res2,
                   everSubmitted, rcEnteredZero, rcWaited>>
    /\ res3' = "None"
    /\ presentResized' = FALSE
    /\ UNCHANGED <<builderVars, resVars, lastSlot, objVars, presentQueue>>

\* Variant: out-of-date is handled like suboptimal, the frame is not aborted.
AfterAcquireNoAbort(r) ==
    IF r # "Success" /\ r # "SuboptimalKHR" /\ r # "ErrorOutOfDateKHR" THEN "exited"
    ELSE "reset_fence"

\* Where draw_frame continues after acquireNextImageKHR returned r.
AfterAcquire(r) ==
    IF r = "ErrorOutOfDateKHR" THEN "rc_enter"
    ELSE IF r # "Success" /\ r # "SuboptimalKHR" THEN "exited"
    ELSE "reset_fence"

\* acquireNextImageKHR with the slot's image-available semaphore.
DF_Acquire(r) ==
    /\ pc = "acquire"
    /\ res2' = r
    /\ pc' = AfterAcquire(r)
    /\ rcReturn' = IF AfterAcquire(r) = "rc_enter" THEN "acquire" ELSE rcReturn
    /\ UNCHANGED <<m_CurrentFrame, m_InFlightFences, gpuPending, m_FramebufferResized,
                   fbSize, pendingEvents, rcSize, m_Swapchain, swapSize, callOps,
                   fenceObserved, everSubmitted, rcEnteredZero, rcWaited>>
    /\ UNCHANGED <<res1, builderVars, lifeVars>>

\* resetFences(m_InFlightFences[m_CurrentFrame])
DF_ResetFence ==
    /\ pc = "reset_fence"
    /\ m_InFlightFences' = [m_InFlightFences EXCEPT ![m_CurrentFrame] = FALSE]
    /\ callOps' = callOps \cup {"resetFence"}
    /\ pc' = "record"
    /\ UNCHANGED <<m_CurrentFrame, gpuPending, m_FramebufferResized, fbSize, pendingEvents,
                   rcSize, rcReturn, m_Swapchain, swapSize, res2, fenceObserved,
                   everSubmitted, rcEnteredZero, rcWaited>>
    /\ UNCHANGED <<res1, builderVars, lifeVars>>

\* m_CommandBuffers[m_CurrentFrame].reset(); record_command_buffer(...)
DF_Record ==
    /\ pc = "record"
    /\ callOps' = callOps \cup {"record"}
    /\ pc' = "submit"
    /\ UNCHANGED <<m_CurrentFrame, m_InFlightFences, gpuPending, m_FramebufferResized,
                   fbSize, pendingEvents, rcSize, rcReturn, m_Swapchain, swapSize, res2,
                   fenceObserved, everSubmitted, rcEnteredZero, rcWaited>>
    /\ UNCHANGED <<res1, builderVars, lifeVars>>

\* m_GraphicsQueue.submit(submitInfo, m_InFlightFences[m_CurrentFrame])
DF_Submit ==
    /\ pc = "submit"
    /\ gpuPending[m_CurrentFrame] < MaxPending
    /\ gpuPending' = [gpuPending EXCEPT ![m_CurrentFrame] = @ + 1]
    /\ fenceObserved' = [fenceObserved EXCEPT ![m_CurrentFrame] = FALSE]
    /\ everSubmitted' = [everSubmitted EXCEPT ![m_CurrentFrame] = TRUE]
    /\ callOps' = callOps \cup {"submit"}
    /\ lastSlot' = m_CurrentFrame
    /\ pc' = "present"
    /\ UNCHANGED <<m_CurrentFrame, m_InFlightFences, m_FramebufferResized, fbSize,
                   pendingEvents, rcSize, rcReturn, m_Swapchain, swapSize, res2,
                   rcEnteredZero, rcWaited>>
    /\ UNCHANGED <<res1, builderVars, resVars, res3, presentResized, objVars, presentQueue>>

\* Variant: the resize flag is not looked at after the present.
AfterPresentNoFlag(r, resized) ==
    IF r = "ErrorOutOfDateKHR" \/ r = "SuboptimalKHR" THEN "rc_enter"
    ELSE IF r # "Success" THEN "exited"
    ELSE "advance"

\* Where draw_frame continues after presentKHR returned r.
AfterPresent(r, resized) ==
    IF r = "ErrorOutOfDateKHR" \/ r = "SuboptimalKHR" \/ resized THEN "rc_enter"
    ELSE IF r # "Success" THEN "exited"
    ELSE "advance"

\* m_GraphicsQueue.presentKHR(presentInfo) and the handling of its result
DF_PresentCall(r) ==
    /\ pc = "present"
    /\ callOps' = callOps \cup {"present"}
    /\ res3' = r
    /\ presentResized' = m_FramebufferResized
    /\ pc' = AfterPresent(r, m_FramebufferResized)
    /\ IF AfterPresent(r, m_FramebufferResized) = "rc_enter"
         THEN /\ m_FramebufferResized' = FALSE
              /\ rcReturn' = "present"
         ELSE UNCHANGED <<m_FramebufferResized, rcReturn>>
    /\ UNCHANGED <<m_CurrentFrame, m_InFlightFences, gpuPending, fbSize, pendingEvents,
                   rcSize, m_Swapchain, swapSize, res2, fenceObserved, everSubmitted,
                   rcEnteredZero, rcWaited>>
    /\ UNCHANGED <<res1, builderVars, resVars, lastSlot, objVars>>

\* The present as the frame loop sees it: what the presentation engine does with the
\* queued present is not followed.
DF_Present(r) ==
    /\ DF_PresentCall(r)
    /\ UNCHANGED presentQueue

\* Variant: draw_frame returns without moving to the next slot.
DF_AdvanceSameSlot ==
    /\ pc = "advance"
    /\ pc' = "poll"
    /\ UNCHANGED <<m_CurrentFrame, m_InFlightFences, gpuPending, m_FramebufferResized,
                   fbSize, pendingEvents, rcSize, rcReturn, m_Swapchain, swapSize, res2,
                   callOps, fenceObserved, everSubmitted, rcEnteredZero, rcWaited>>
    /\ UNCHANGED <<res1, builderVars, lifeVars>>

\* m_CurrentFrame = (m_CurrentFrame + 1) % m_FramesInFlight; draw_frame returns
DF_Advance ==
    /\ pc = "advance"
    /\ m_CurrentFrame' = (m_CurrentFrame + 1) % m_FramesInFlight
    /\ pc' = "poll"
    /\ UNCHANGED <<m_InFlightFences, gpuPending, m_FramebufferResized, fbSize,
                   pendingEvents, rcSize, rcReturn, m_Swapchain, swapSize, res2, callOps,
                   fenceObserved, everSubmitted, rcEnteredZero, rcWaited>>
    /\ UNCHANGED <<res1, builderVars, lifeVars>>

(***************************************************************************)
(* VulkanAppBase::recreate_swapchain (and TriangleBuffered's override)     *)
(***************************************************************************)
\* Variant: the loop runs only while both dimensions are zero.
RcLoopCondBoth(size) == size[1] = 0 /\ size[2] = 0

\* Condition of the minimize loop: while (width == 0 || height == 0)
RcLoopCond(size) == size[1] = 0 \/ size[2] = 0

\* int width = 0, height = 0; glfwGetFramebufferSize(...); first test of the loop
RC_Enter ==
    /\ pc = "rc_enter"
    /\ Len(swapchains) < MaxSwapchains
    /\ rcSize' = fbSize
    /\ rcEnteredZero' = (fbSize = <<0, 0>>)
    /\ rcWaited' = FALSE
    /\ pc' = IF RcLoopCond(fbSize) THEN "rc_get" ELSE "rc_idle"
    /\ UNCHANGED <<m_CurrentFrame, m_InFlightFences, gpuPending, m_FramebufferResized,
                   fbSize, pendingEvents, rcReturn, m_Swapchain, swapSize, res2, callOps,
                   fenceObserved, everSubmitted>>
    /\ UNCHANGED <<res1, builderVars, lifeVars>>

\* loop body, first statement: glfwGetFramebufferSize(m_Window, &width, &height)
RC_GetSize ==
    /\ pc = "rc_get"
    /\ rcSize' = fbSize
    /\ pc' = "rc_wait"
    /\ UNCHANGED <<m_CurrentFrame, m_InFlightFences, gpuPending, m_FramebufferResized,
                   fbSize, pendingEvents, rcReturn, m_Swapchain, swapSize, res2, callOps,
                   fenceObserved, everSubmitted, rcEnteredZero, rcWaited>>
    /\ UNCHANGED <<res1, builderVars, lifeVars>>

\* loop body, second statement: glfwWaitEvents() blocks until an event is queued and
\* dispatches the queue; then the loop condition is tested on the sizes read before.
RC_WaitEvents ==
    /\ pc = "rc_wait"
    /\ pendingEvents # {}
    /\ m_FramebufferResized' = ResizedAfterEvents(m_FramebufferResized, pendingEvents)
    /\ pendingEvents' = {}
    /\ rcWaited' = TRUE
    /\ pc' = IF RcLoopCond(rcSize) THEN "rc_get" ELSE "rc_idle"
    /\ UNCHANGED <<m_CurrentFrame, m_InFlightFences, gpuPending, fbSize, rcSize, rcReturn,
                   m_Swapchain, swapSize, res2, callOps, fenceObserved, everSubmitted,
                   rcEnteredZero>>
    /\ UNCHANGED <<res1, builderVars, lifeVars>>

\* Variant: recreate_swapchain goes on without waiting for the device.
RC_WaitIdleNoBlock ==
    /\ pc = "rc_idle"
    /\ pc' = "rc_destroy"
    /\ UNCHANGED <<m_CurrentFrame, m_InFlightFences, gpuPending, m_FramebufferResized,
                   fbSize, pendingEvents, rcSize, rcReturn, m_Swapchain, swapSize, res2,
                   callOps, fenceObserved, everSubmitted, rcEnteredZero, rcWaited>>
    /\ UNCHANGED <<res1, builderVars, lifeVars>>

\* m_Device.waitIdle(): blocks until the GPU has completed every submission
RC_WaitIdle ==
    /\ pc = "rc_idle"
    /\ \A i \in Slots : gpuPending[i] = 0
    /\ pc' = "rc_destroy"
    /\ UNCHANGED <<m_CurrentFrame, m_InFlightFences, gpuPending, m_FramebufferResized,
                   fbSize, pendingEvents, rcSize, rcReturn, m_Swapchain, swapSize, res2,
                   callOps, fenceObserved, everSubmitted, rcEnteredZero, rcWaited>>
    /\ UNCHANGED <<res1, builderVars, lifeVars>>

\* Where the caller continues when recreate_swapchain returns: the acquire path
\* returns from draw_frame, the present path goes on to advance the frame slot.
AfterRecreate(site) == IF site = "acquire" THEN "poll" ELSE "advance"

(***************************************************************************)
(* Swapchain resources: create_swapchain, destroy_swapchain,               *)
(* create_framebuffers, destroy_framebuffers                               *)
(***************************************************************************)
\* Handles of the images / image views that come with swapchain g.
SwapchainEntries(g, n) == [k \in 1 .. n |-> <<g, k>>]

\* create_framebuffers(): the list is resized to the number of views and every
\* entry is overwritten with a new framebuffer on the view of the same index.
NewFramebufferHandles(fbs, views) == [i \in 1 .. Len(views) |-> Len(fbs) + i]

NewFramebufferObjects(views) == [i \in 1 .. Len(views) |-> [view |-> views[i], destroys |-> 0]]

\* for (framebuffer : list) m_Device.destroyFramebuffer(framebuffer);
DestroyFramebuffers(fbs, list) ==
    [h \in 1 .. Len(fbs) |->
        [fbs[h] EXCEPT !.destroys = @ + Cardinality({i \in 1 .. Len(list) : list[i] = h})]]

\* for (imageView : views) m_Device.destroyImageView(imageView);
DestroyViews(vd, views) ==
    [g \in 1 .. Len(vd) |->
        [k \in 1 .. Len(vd[g]) |->
            vd[g][k] + Cardinality({i \in 1 .. Len(views) : views[i] = <<g, k>>})]]

\* m_Device.destroySwapchainKHR(handle); a null handle is ignored
DestroySwapchainKHR(scs, handle) ==
    [g \in 1 .. Len(scs) |->
        IF g = handle THEN [scs[g] EXCEPT !.destroys = @ + 1] ELSE scs[g]]

\* Variant: destroy_swapchain does not clear the stored lists.
ListAfterDestroyKept(list) == list

\* m_ImageViews.clear(); m_Images.clear();
ListAfterDestroy(list) == <<>>

\* VulkanAppBase::create_swapchain(), builder succeeded: the size is read from the
\* window, m_Swapchain is set, the images and views are appended to the lists.
\* Neither m_SwapExtent nor m_SwapFormat is assigned.
create_swapchain ==
    LET g == Len(swapchains) + 1
        n == ImageCount(fbSize)
    IN  /\ swapchains' = Append(swapchains, [images |-> n, destroys |-> 0])
        /\ viewDestroys' = Append(viewDestroys, [k \in 1 .. n |-> 0])
        /\ m_Swapchain' = g
        /\ swapSize' = fbSize
        /\ m_Images' = m_Images \o SwapchainEntries(g, n)
        /\ m_ImageViews' = m_ImageViews \o SwapchainEntries(g, n)
        /\ UNCHANGED <<m_SwapExtent, m_SwapFormat>>

\* TriangleBuffered::init(), run by the constructor.  VulkanAppBase::init() creates
\* the swapchain, calls the virtual create_framebuffers() (TriangleBuffered's, which
\* fills the derived m_Framebuffers) and creates the fences signaled; then init()
\* calls create_framebuffers() a second time.  ok: the swapchain builder succeeded.
TB_init(ok) ==
    /\ pc = "init"
    /\ IF ok
         THEN LET first == framebuffers \o NewFramebufferObjects(m_ImageViews')
              IN  /\ create_swapchain
                  /\ framebuffers' = first \o NewFramebufferObjects(m_ImageViews')
                  /\ m_Framebuffers' = NewFramebufferHandles(first, m_ImageViews')
                  /\ m_InFlightFences' = [i \in Slots |-> TRUE]
                  /\ objectCreates' = CreateObjects(objectCreates, ObjectKinds)
                  /\ pc' = "poll"
         ELSE /\ pc' = "exited"
              /\ objectCreates' = CreateObjects(objectCreates, {"device", "queues"})
              /\ UNCHANGED <<m_InFlightFences, m_Swapchain, swapSize, m_Images,
                             m_ImageViews, m_Framebuffers, m_SwapExtent, m_SwapFormat,
                             swapchains, viewDestroys, framebuffers>>
    /\ UNCHANGED <<m_CurrentFrame, gpuPending, m_FramebufferResized, fbSize,
                   pendingEvents, rcSize, rcReturn, res1, res2, callOps, fenceObserved,
                   everSubmitted, rcEnteredZero, rcWaited>>
    /\ UNCHANGED <<base_m_Framebuffers, cmdBuffersFreed, res3, presentResized, lastSlot,
                   objectDestroys, presentQueue>>
    /\ UNCHANGED builderVars

\* VulkanAppBase::destroy_swapchain() as called by recreate_swapchain: destroys the
\* base's m_Framebuffers, the image views, clears both lists, destroys the swapchain.
RC_DestroySwapchain ==
    /\ pc = "rc_destroy"
    /\ framebuffers' = DestroyFramebuffers(framebuffers, base_m_Framebuffers)
    /\ viewDestroys' = DestroyViews(viewDestroys, m_ImageViews)
    /\ m_ImageViews' = ListAfterDestroy(m_ImageViews)
    /\ m_Images' = ListAfterDestroy(m_Images)
    /\ swapchains' = DestroySwapchainKHR(swapchains, m_Swapchain)
    /\ callOps' = callOps \cup {"destroySwapchain"}
    /\ pc' = "rc_create"
    /\ UNCHANGED <<m_CurrentFrame, m_InFlightFences, gpuPending, m_FramebufferResized,
                   fbSize, pendingEvents, rcSize, rcReturn, m_Swapchain, swapSize, res1,
                   res2, fenceObserved, everSubmitted, rcEnteredZero, rcWaited>>
    /\ UNCHANGED <<base_m_Framebuffers, m_Framebuffers, m_SwapExtent, m_SwapFormat,
                   cmdBuffersFreed, res3, presentResized, lastSlot, objVars, presentQueue>>
    /\ UNCHANGED builderVars

\* create_swapchain(); create_framebuffers(); at the end of
\* VulkanAppBase::recreate_swapchain.  A failed swapchain build ends the process.
RC_CreateSwapchain(ok) ==
    /\ pc = "rc_create"
    /\ IF ok
         THEN /\ create_swapchain
              /\ framebuffers' = framebuffers \o NewFramebufferObjects(m_ImageViews')
              /\ m_Framebuffers' = NewFramebufferHandles(framebuffers, m_ImageViews')
              /\ callOps' = callOps \cup {"createSwapchain"}
              /\ pc' = "rc_rebuild"
         ELSE /\ pc' = "exited"
              /\ UNCHANGED <<m_Swapchain, swapSize, m_Images, m_ImageViews,
                             m_Framebuffers, m_SwapExtent, m_SwapFormat, swapchains,
                             viewDestroys, framebuffers, callOps>>
    /\ UNCHANGED <<m_CurrentFrame, m_InFlightFences, gpuPending, m_FramebufferResized,
                   fbSize, pendingEvents, rcSize, rcReturn, res1, res2, fenceObserved,
                   everSubmitted, rcEnteredZero, rcWaited>>
    /\ UNCHANGED <<base_m_Framebuffers, cmdBuffersFreed, res3, presentResized, lastSlot,
                   objVars, presentQueue>>
    /\ UNCHANGED builderVars

\* Variant: the rebuild after a recreation restarts at frame slot 0.
RC_RebuildResetSlot ==
    LET destroyed == DestroyFramebuffers(framebuffers, m_Framebuffers)
    IN  /\ pc = "rc_rebuild"
        /\ framebuffers' = destroyed \o NewFramebufferObjects(m_ImageViews)
        /\ m_Framebuffers' = NewFramebufferHandles(destroyed, m_ImageViews)
        /\ pc' = AfterRecreate(rcReturn)
        /\ m_CurrentFrame' = 0
        /\ UNCHANGED <<m_InFlightFences, gpuPending, m_FramebufferResized,
                       fbSize, pendingEvents, rcSize, rcReturn, m_Swapchain, swapSize,
                       res1, res2, callOps, fenceObserved, everSubmitted, rcEnteredZero,
                       rcWaited>>
        /\ UNCHANGED <<m_Images, m_ImageViews, base_m_Framebuffers, m_SwapExtent,
                       m_SwapFormat, swapchains, viewDestroys, cmdBuffersFreed, res3,
                       presentResized, lastSlot, objVars, presentQueue>>
        /\ UNCHANGED builderVars

\* TriangleBuffered::recreate_swapchain after the base call: destroy_framebuffers();
\* create_framebuffers(); then recreate_swapchain returns to draw_frame.
RC_Rebuild ==
    LET destroyed == DestroyFramebuffers(framebuffers, m_Framebuffers)
    IN  /\ pc = "rc_rebuild"
        /\ framebuffers' = destroyed \o NewFramebufferObjects(m_ImageViews)
        /\ m_Framebuffers' = NewFramebufferHandles(destroyed, m_ImageViews)
        /\ pc' = AfterRecreate(rcReturn)
        /\ UNCHANGED <<m_CurrentFrame, m_InFlightFences, gpuPending, m_FramebufferResized,
                       fbSize, pendingEvents, rcSize, rcReturn, m_Swapchain, swapSize,
                       res1, res2, callOps, fenceObserved, everSubmitted, rcEnteredZero,
                       rcWaited>>
        /\ UNCHANGED <<m_Images, m_ImageViews, base_m_Framebuffers, m_SwapExtent,
                       m_SwapFormat, swapchains, viewDestroys, cmdBuffersFreed, res3,
                       presentResized, lastSlot, objVars, presentQueue>>
        /\ UNCHANGED builderVars

(***************************************************************************)
(* Shutdown: run() returns, ~TriangleBuffered and ~VulkanAppBase run        *)
(***************************************************************************)
\* while (!glfwWindowShouldClose(m_Window)): the user has closed the window
RunLoopExit ==
    /\ pc = "poll"
    /\ pc' = "td_idle"
    /\ UNCHANGED <<m_CurrentFrame, m_InFlightFences, gpuPending, m_FramebufferResized,
                   fbSize, pendingEvents, rcSize, rcReturn, m_Swapchain, swapSize, res2,
                   callOps, fenceObserved, everSubmitted, rcEnteredZero, rcWaited>>
    /\ UNCHANGED <<res1, builderVars, lifeVars>>

\* Variant: TriangleBuffered::destroy does not wait for the device.
TD_WaitIdleNoBlock ==
    /\ pc = "td_idle"
    /\ pc' = "td_destroy"
    /\ UNCHANGED <<m_CurrentFrame, m_InFlightFences, gpuPending, m_FramebufferResized,
                   fbSize, pendingEvents, rcSize, rcReturn, m_Swapchain, swapSize, res2,
                   callOps, fenceObserved, everSubmitted, rcEnteredZero, rcWaited>>
    /\ UNCHANGED <<res1, builderVars, lifeVars>>

\* TriangleBuffered::destroy: m_Device.waitIdle()
TD_WaitIdle ==
    /\ pc = "td_idle"
    /\ \A i \in Slots : gpuPending[i] = 0
    /\ pc' = "td_destroy"
    /\ UNCHANGED <<m_CurrentFrame, m_InFlightFences, gpuPending, m_FramebufferResized,
                   fbSize, pendingEvents, rcSize, rcReturn, m_Swapchain, swapSize, res2,
                   callOps, fenceObserved, everSubmitted, rcEnteredZero, rcWaited>>
    /\ UNCHANGED <<res1, builderVars, lifeVars>>

\* TriangleBuffered::destroy: destroy_framebuffers(); destroyRenderPass; the command
\* buffers are freed
TD_Destroy ==
    /\ pc = "td_destroy"
    /\ framebuffers' = DestroyFramebuffers(framebuffers, m_Framebuffers)
    /\ m_Framebuffers' = <<>>
    /\ cmdBuffersFreed' = TRUE
    /\ objectDestroys' = DestroyObjects(objectDestroys, {"commandBuffers"})
    /\ pc' = "bd_idle"
    /\ UNCHANGED <<m_CurrentFrame, m_InFlightFences, gpuPending, m_FramebufferResized,
                   fbSize, pendingEvents, rcSize, rcReturn, m_Swapchain, swapSize, res1,
                   res2, callOps, fenceObserved, everSubmitted, rcEnteredZero, rcWaited>>
    /\ UNCHANGED <<m_Images, m_ImageViews, base_m_Framebuffers, m_SwapExtent,
                   m_SwapFormat, swapchains, viewDestroys, res3, presentResized,
                   lastSlot, objectCreates, presentQueue>>
    /\ UNCHANGED builderVars

\* VulkanAppBase::destroy: m_Device.waitIdle()
BD_WaitIdle ==
    /\ pc = "bd_idle"
    /\ \A i \in Slots : gpuPending[i] = 0
    /\ pc' = "bd_destroy"
    /\ UNCHANGED <<m_CurrentFrame, m_InFlightFences, gpuPending, m_FramebufferResized,
                   fbSize, pendingEvents, rcSize, rcReturn, m_Swapchain, swapSize, res2,
                   callOps, fenceObserved, everSubmitted, rcEnteredZero, rcWaited>>
    /\ UNCHANGED <<res1, builderVars, lifeVars>>

\* VulkanAppBase::destroy after the wait: destroy_swapchain(), then the loops over
\* m_ImageViews (cleared by destroy_swapchain) and over the base's m_Framebuffers
\* (not cleared by destroy_swapchain) destroy their entries again; the window goes.
BD_Destroy ==
    LET fb1 == DestroyFramebuffers(framebuffers, base_m_Framebuffers)
        vd1 == DestroyViews(viewDestroys, m_ImageViews)
        views1 == ListAfterDestroy(m_ImageViews)
    IN  /\ pc = "bd_destroy"
        /\ swapchains' = DestroySwapchainKHR(swapchains, m_Swapchain)
        /\ viewDestroys' = DestroyViews(vd1, views1)
        /\ framebuffers' = DestroyFramebuffers(fb1, base_m_Framebuffers)
        /\ m_ImageViews' = views1
        /\ m_Images' = ListAfterDestroy(m_Images)
        /\ objectDestroys' =
               DestroyObjects(objectDestroys, {"syncObjects", "commandPools", "device"})
        /\ pc' = "done"
        /\ UNCHANGED <<m_CurrentFrame, m_InFlightFences, gpuPending, m_FramebufferResized,
                       fbSize, pendingEvents, rcSize, rcReturn, m_Swapchain, swapSize,
                       res1, res2, callOps, fenceObserved, everSubmitted, rcEnteredZero,
                       rcWaited>>
        /\ UNCHANGED <<base_m_Framebuffers, m_Framebuffers, m_SwapExtent, m_SwapFormat,
                       cmdBuffersFreed, res3, presentResized, lastSlot, objectCreates,
                       presentQueue>>
        /\ UNCHANGED builderVars

NextFrame ==
    \/ \E ok \in BOOLEAN : TB_init(ok)
    \/ \E i \in Slots : GpuComplete(i)
    \/ \E s \in FbSizes : EnvResize(s)
    \/ EnvInput
    \/ PollEvents
    \/ \E r \in WaitResults : DF_WaitFence(r)
    \/ \E r \in AcquireResults : DF_Acquire(r)
    \/ DF_ResetFence
    \/ DF_Record
    \/ DF_Submit
    \/ \E r \in PresentResults : DF_Present(r)
    \/ DF_Advance
    \/ RC_Enter
    \/ RC_GetSize
    \/ RC_WaitEvents
    \/ RC_WaitIdle
    \/ RC_DestroySwapchain
    \/ \E ok \in BOOLEAN : RC_CreateSwapchain(ok)
    \/ RC_Rebuild
    \/ RunLoopExit
    \/ TD_WaitIdle
    \/ TD_Destroy
    \/ BD_WaitIdle
    \/ BD_Destroy

Spec == Init /\ [][NextFrame]_vars

(***************************************************************************)
(* Properties of the frame loop                                            *)
(***************************************************************************)
\* C1: the command buffer of slot i is reset and re-recorded only when the slot's
\* in-flight fence has been observed signaled by waitForFences since the slot's
\* previous submission, and so the GPU has finished the previous use of the buffer.
C1_FenceBeforeRerecord ==
    [][(pc = "record" /\ pc' = "submit") =>
         (fenceObserved[m_CurrentFrame] /\ gpuPending[m_CurrentFrame] = 0)]_vars

\* A slot that was submitted before has been reset and recorded again.
C1_Witness ==
    pc = "submit" /\ "record" \in callOps /\ everSubmitted[m_CurrentFrame]

\* C5: when acquisition reports out-of-date, the draw_frame call recreates the
\* swapchain and returns without resetting the fence, recording, submitting or
\* presenting, and the slot's fence is signaled when the next draw_frame waits on it.
C5_OutOfDateAbortsFrame ==
    (res2 = "ErrorOutOfDateKHR" /\ pc \in RecreatePcs \cup {"poll", "wait_fence"}) =>
        /\ callOps \cap {"resetFence", "record", "submit", "present"} = {}
        /\ m_InFlightFences[m_CurrentFrame]
        /\ (pc \in {"poll", "wait_fence"} => "createSwapchain" \in callOps)

\* An aborted frame has returned and the next draw_frame is about to wait on the fence.
C5_Witness ==
    /\ res2 = "ErrorOutOfDateKHR"
    /\ pc = "wait_fence"
    /\ "createSwapchain" \in callOps
    /\ everSubmitted[m_CurrentFrame]

\* C7: at most m_FramesInFlight submitted frames are incomplete at any time, and a
\* slot's image-available semaphore (acquire) and command buffer (record) are used
\* again only when no submission of that slot is outstanding; at the acquire the
\* slot's fence is signaled.
C7_PipelineDepth ==
    /\ [](TotalPending <= m_FramesInFlight)
    /\ [][(pc = "acquire" /\ pc' # "acquire") =>
             (gpuPending[m_CurrentFrame] = 0 /\ m_InFlightFences[m_CurrentFrame])]_vars
    /\ [][(pc = "record" /\ pc' # "record") => gpuPending[m_CurrentFrame] = 0]_vars

\* Both slots have work in flight while the CPU has come back to wait on a fence.
C7_Witness ==
    TotalPending = m_FramesInFlight /\ pc = "wait_fence"

\* C10: a recreate_swapchain entered while the framebuffer size is (0,0) issues no
\* swapchain destroy or create while it is in its wait loop, and gets past the loop
\* only after glfwWaitEvents has returned and glfwGetFramebufferSize has reported a
\* size that is non-zero in both dimensions.
C10_MinimizedBlocksRecreate ==
    rcEnteredZero =>
        /\ (pc \in {"rc_get", "rc_wait"} =>
               callOps \cap {"destroySwapchain", "createSwapchain"} = {})
        /\ ((pc \in {"rc_idle", "rc_destroy", "rc_create", "rc_rebuild"}
              \/ "createSwapchain" \in callOps) =>
               (rcWaited /\ rcSize[1] # 0 /\ rcSize[2] # 0))

\* A recreation entered at size (0,0) has waited, seen a size and recreated.
C10_Witness ==
    rcEnteredZero /\ rcWaited /\ "createSwapchain" \in callOps

\* C11: when presentKHR has returned, draw_frame goes into recreate_swapchain exactly
\* when the result is out-of-date or suboptimal or m_FramebufferResized is set; a
\* recreation in a call that has submitted comes after the call's present; and a call
\* that reaches the slot advance has recreated the swapchain exactly in those cases.
C11_RecreateAfterPresent ==
    /\ [][(pc = "present" /\ pc' # "present") =>
            ((pc' = "rc_enter") <=>
                (res3' \in {"ErrorOutOfDateKHR", "SuboptimalKHR"} \/ m_FramebufferResized))]_vars
    /\ []((pc \in RecreatePcs /\ "submit" \in callOps) => "present" \in callOps)
    /\ []((callOps \cap {"destroySwapchain", "createSwapchain"} # {} /\ "submit" \in callOps)
            => "present" \in callOps)
    /\ [](pc = "advance" =>
            (("createSwapchain" \in callOps) <=>
                (res3 \in {"ErrorOutOfDateKHR", "SuboptimalKHR"} \/ presentResized)))

\* A present that succeeded with the resize flag set has been followed by a recreation.
C11_Witness ==
    pc = "advance" /\ res3 = "Success" /\ presentResized /\ "createSwapchain" \in callOps

\* C13: m_CurrentFrame stays in 0 .. m_FramesInFlight - 1; it changes only in a call
\* that has submitted, to the next slot modulo m_FramesInFlight; a call that has
\* submitted returns with the slot advanced; and every submission uses the slot after
\* the one of the previous submission, the first one slot 0 (0, 1, 0, 1, ...).
C13_SlotCycles ==
    /\ [](m_CurrentFrame \in Slots)
    /\ [][m_CurrentFrame' # m_CurrentFrame =>
            /\ "submit" \in callOps
            /\ m_CurrentFrame' = (m_CurrentFrame + 1) % m_FramesInFlight]_vars
    /\ [][(pc # "poll" /\ pc' = "poll" /\ "submit" \in callOps) =>
            m_CurrentFrame' = (m_CurrentFrame + 1) % m_FramesInFlight]_vars
    /\ [][(pc = "submit" /\ pc' = "present") =>
            m_CurrentFrame = (lastSlot + 1) % m_FramesInFlight]_vars

\* Slots 0, 1, 0 have been submitted in this order without any recreation.
C13_Witness ==
    /\ pc = "present"
    /\ lastSlot = 0
    /\ everSubmitted[1]
    /\ Len(swapchains) = 1

(***************************************************************************)
(* Properties of the swapchain lifecycle                                   *)
(***************************************************************************)
\* The handle in m_Swapchain names a swapchain that has not been destroyed.
SwapLive == m_Swapchain # 0 /\ swapchains[m_Swapchain].destroys = 0

LiveSwapchains == {g \in 1 .. Len(swapchains) : swapchains[g].destroys = 0}

\* The step destroys a framebuffer, an image view or a swapchain, or frees the
\* command buffers.
DestroyStep ==
    \/ \E h \in 1 .. Len(framebuffers) : framebuffers'[h].destroys # framebuffers[h].destroys
    \/ \E g \in 1 .. Len(viewDestroys) : viewDestroys'[g] # viewDestroys[g]
    \/ \E g \in 1 .. Len(swapchains) : swapchains'[g].destroys # swapchains[g].destroys
    \/ cmdBuffersFreed' # cmdBuffersFreed

\* C12: m_Images and m_ImageViews always have the same length; while a swapchain is
\* live that length is the swapchain's image count, which is the count the driver
\* gives for the swapchain's extent (the same after a recreation at an unchanged
\* size), and every stored view belongs to the live swapchain.
C12_ListsMatchSwapchain ==
    /\ Len(m_Images) = Len(m_ImageViews)
    /\ SwapLive =>
         /\ Len(m_ImageViews) = swapchains[m_Swapchain].images
         /\ Len(m_ImageViews) = ImageCount(swapSize)
         /\ \A i \in 1 .. Len(m_ImageViews) : m_ImageViews[i][1] = m_Swapchain

\* The swapchain has been destroyed and created again at the size of the first one.
C12_Witness ==
    /\ Len(swapchains) = 2
    /\ SwapLive
    /\ swapSize = <<1, 1>>
    /\ Len(m_ImageViews) = 2
    /\ pc = "poll"

\* C16: no live framebuffer is built on a destroyed image view, and no live image
\* view belongs to a destroyed swapchain (framebuffers go before their views, views
\* before their swapchain).
C16_TeardownOrder ==
    /\ \A h \in 1 .. Len(framebuffers) :
         framebuffers[h].destroys = 0 =>
             viewDestroys[framebuffers[h].view[1]][framebuffers[h].view[2]] = 0
    /\ \A g \in 1 .. Len(viewDestroys) : \A k \in 1 .. Len(viewDestroys[g]) :
         viewDestroys[g][k] = 0 => swapchains[g].destroys = 0

\* C17: at most one swapchain is live at any time; a step of recreate_swapchain that
\* destroys something is taken with no GPU work outstanding; a swapchain is created
\* only when no swapchain is live; and when recreate_swapchain returns, m_Swapchain
\* is a live swapchain.
C17_RecreateOrder ==
    /\ [](Cardinality(LiveSwapchains) <= 1)
    /\ [][(pc \in RecreatePcs /\ DestroyStep) => TotalPending = 0]_vars
    /\ [][Len(swapchains') > Len(swapchains) => LiveSwapchains = {}]_vars
    /\ [][(pc \in RecreatePcs /\ pc' \in {"poll", "advance"}) =>
            (m_Swapchain' # 0 /\ swapchains'[m_Swapchain'].destroys = 0)]_vars

\* A recreation started after a submission has returned with the second swapchain live.
C17_Witness ==
    /\ pc = "advance"
    /\ "submit" \in callOps
    /\ Len(swapchains) = 2
    /\ swapchains[1].destroys = 1
    /\ SwapLive

\* C18: every step that destroys a framebuffer, an image view or a swapchain or frees
\* the command buffers is taken while no submitted GPU work is outstanding.
C18_NoDestroyWhileInFlight ==
    [][DestroyStep => TotalPending = 0]_vars

\* The application has drawn with both slots, recreated the swapchain and shut down.
C18_Witness ==
    /\ pc = "done"
    /\ cmdBuffersFreed
    /\ everSubmitted[0] /\ everSubmitted[1]
    /\ Len(swapchains) = 2

\* C19: whenever a swapchain is live, m_SwapExtent and m_SwapFormat are the extent
\* and the format of that swapchain.
C19_StoredExtentFormat ==
    SwapLive => (m_SwapExtent = swapSize /\ m_SwapFormat = SurfaceFormat)

\* C20: no framebuffer, image view or swapchain is ever destroyed twice, and when the
\* application has shut down each one created has been destroyed exactly once.
C20_DestroyedExactlyOnce ==
    /\ \A h \in 1 .. Len(framebuffers) : framebuffers[h].destroys <= 1
    /\ \A g \in 1 .. Len(viewDestroys) : \A k \in 1 .. Len(viewDestroys[g]) :
         viewDestroys[g][k] <= 1
    /\ \A g \in 1 .. Len(swapchains) : swapchains[g].destroys <= 1
    /\ pc = "done" =>
         /\ \A h \in 1 .. Len(framebuffers) : framebuffers[h].destroys = 1
         /\ \A g \in 1 .. Len(viewDestroys) : \A k \in 1 .. Len(viewDestroys[g]) :
              viewDestroys[g][k] = 1
         /\ \A g \in 1 .. Len(swapchains) : swapchains[g].destroys = 1

\* C22: create_swapchain is never called from recreate_swapchain while the window's
\* framebuffer size is zero in a dimension.
C22_NoCreateAtZeroSize ==
    [][(pc = "rc_create" /\ pc' # "rc_create") => ~RcLoopCond(fbSize)]_vars

\* C27: no step of a swapchain recreation creates or destroys the device, the
\* queues, the command pools, the command buffers or the sync objects, or changes the
\* frame-slot index; each of these objects is created at most once, exists from
\* startup on, and the sync objects are destroyed only by the shutdown.
C27_RecreateKeepsObjects ==
    /\ [][(pc \in RecreatePcs) =>
            (UNCHANGED <<objectCreates, objectDestroys, cmdBuffersFreed,
                         m_CurrentFrame>>)]_vars
    /\ [](\A k \in ObjectKinds : objectCreates[k] <= 1 /\ objectDestroys[k] <= 1)
    /\ [](pc \notin {"init", "exited"} => \A k \in ObjectKinds : objectCreates[k] = 1)
    /\ [](objectDestroys["syncObjects"] > 0 => pc = "done")

\* A recreation entered at slot 1 has completed and every object is still the one
\* created at startup.
C27_Witness ==
    /\ pc = "advance"
    /\ m_CurrentFrame = 1
    /\ "createSwapchain" \in callOps
    /\ objectCreates["syncObjects"] = 1
    /\ \A k \in ObjectKinds : objectDestroys[k] = 0

\* Every step of the application's own thread: startup, the run loop, draw_frame,
\* recreate_swapchain and shutdown.  The window system and the GPU are not part of it.
ThreadStep ==
    \/ \E ok \in BOOLEAN : TB_init(ok)
    \/ PollEvents
    \/ \E r \in WaitResults : DF_WaitFence(r)
    \/ \E r \in AcquireResults : DF_Acquire(r)
    \/ DF_ResetFence
    \/ DF_Record
    \/ DF_Submit
    \/ \E r \in PresentResults : DF_Present(r)
    \/ DF_Advance
    \/ RC_Enter
    \/ RC_GetSize
    \/ RC_WaitEvents
    \/ RC_WaitIdle
    \/ RC_DestroySwapchain
    \/ \E ok \in BOOLEAN : RC_CreateSwapchain(ok)
    \/ RC_Rebuild
    \/ RunLoopExit
    \/ TD_WaitIdle
    \/ TD_Destroy
    \/ BD_WaitIdle
    \/ BD_Destroy

\* The same program under a fair scheduler: the thread runs whenever a statement of it
\* can run (a blocking call that cannot return is not enabled), and the GPU finishes
\* submitted work.  Nothing obliges the user to produce window events.
SpecFair ==
    /\ Init
    /\ [][NextFrame]_vars
    /\ WF_vars(ThreadStep)
    /\ WF_vars(\E i \in Slots : GpuComplete(i))

\* recreate_swapchain is inside its minimize loop.
InMinimizeLoop == pc \in {"rc_get", "rc_wait"}

\* C23: once the framebuffer size is non-zero while recreate_swapchain is in its wait
\* loop, the loop is eventually left (or the size has gone back to zero), whether or
\* not any further window event arrives.
C23_LeavesLoopWhenRestored ==
    (InMinimizeLoop /\ ~RcLoopCond(fbSize)) ~> (~InMinimizeLoop \/ RcLoopCond(fbSize))

\* C24: when a draw_frame call that recreated the swapchain has returned to the run
\* loop, m_FramebufferResized is false.
C24_FlagClearAfterRecreate ==
    (pc = "poll" /\ "createSwapchain" \in callOps) => ~m_FramebufferResized

\* C26: a result of the fence wait, the acquire or the present that is neither
\* success nor a handled out-of-date / suboptimal code ends the process at once, and
\* an ended process does nothing more.
C26_FatalResultsTerminate ==
    /\ [][(pc = "wait_fence" /\ pc' # pc /\ res1' # "Success") => pc' = "exited"]_vars
    /\ [][(pc = "acquire" /\ pc' # pc
             /\ res2' \notin {"Success", "SuboptimalKHR", "ErrorOutOfDateKHR"})
            => pc' = "exited"]_vars
    /\ [][(pc = "present" /\ pc' # pc
             /\ res3' \notin {"Success", "SuboptimalKHR", "ErrorOutOfDateKHR"})
            => pc' = "exited"]_vars
    /\ [][pc = "exited" =>
            UNCHANGED <<pc, callOps, m_CurrentFrame, swapchains, gpuPending>>]_vars

(***************************************************************************)
(* The frame loop together with the presentation engine: draw_frame on a   *)
(* surface that stays adequate (no resize, no out-of-date result), with    *)
(* the queued presents followed until their semaphore wait has executed.   *)
(***************************************************************************)
\* Window sizes at startup; the driver's image count (2 or 3) follows from the size.
StartSizes == {<<1, 1>>, <<2, 1>>}

\* Results of acquire and present on a surface that stays adequate.
AdequateResults == {"Success", "ErrorDeviceLost"}

InitPresent ==
    /\ \E size \in StartSizes : InitFrameWith("init", size)
    /\ InitBuilderAs("Graphics")
    /\ InitLifeAs(SurfaceFormat)

\* acquireNextImageKHR returns an image only when the presentation engine has one to
\* give: an image whose queued present has not been executed is not available.
DF_AcquireImage(r) ==
    /\ r = "Success" => Len(presentQueue) < Len(m_Images)
    /\ DF_Acquire(r)

\* presentKHR queues a present that waits on m_RenderFinishedSemaphores[m_CurrentFrame]
\* (signalSemaphores of the submit just made).
DF_QueuePresent(r) ==
    /\ DF_PresentCall(r)
    /\ presentQueue' = Append(presentQueue, m_CurrentFrame)

\* The presentation engine executes the oldest queued present: its semaphore wait
\* completes once the submit that signals the semaphore has finished on the GPU.
PresentEngineWait ==
    /\ presentQueue # <<>>
    /\ gpuPending[Head(presentQueue)] = 0
    /\ presentQueue' = Tail(presentQueue)
    /\ UNCHANGED <<frameVars, builderVars, resVars, res3, presentResized, lastSlot,
                   objVars>>

NextPresent ==
    \/ \E ok \in BOOLEAN : TB_init(ok)
    \/ \E i \in Slots : GpuComplete(i)
    \/ PresentEngineWait
    \/ PollEvents
    \/ \E r \in WaitResults : DF_WaitFence(r)
    \/ \E r \in AdequateResults : DF_AcquireImage(r)
    \/ DF_ResetFence
    \/ DF_Record
    \/ DF_Submit
    \/ \E r \in AdequateResults : DF_QueuePresent(r)
    \/ DF_Advance

SpecPresent == InitPresent /\ [][NextPresent]_vars

\* C25: when draw_frame submits the work that signals the render-finished semaphore
\* of the current slot, no queued present of an earlier use of that slot is still
\* waiting on that semaphore.
C25_SemaphoreFreeAtSubmit ==
    [][(pc = "submit" /\ pc' = "present") =>
         \A k \in 1 .. Len(presentQueue) : presentQueue[k] # m_CurrentFrame]_vars

(***************************************************************************)
(* The Clear tutorial's frame loop (src/Clear): no swapchain recreation,   *)
(* every result other than success is fatal                                *)
(***************************************************************************)
InitClear == InitFrameAt("cl_poll") /\ InitBuilderAs("Graphics") /\ InitLifeAs("Undefined")

\* run(): glfwPollEvents(); no callback is registered
CL_PollEvents ==
    /\ pc = "cl_poll"
    /\ pendingEvents' = {}
    /\ pc' = "cl_wait"
    /\ UNCHANGED <<m_CurrentFrame, m_InFlightFences, gpuPending, m_FramebufferResized,
                   fbSize, rcSize, rcReturn, m_Swapchain, swapSize, res1, res2, callOps,
                   fenceObserved, everSubmitted, rcEnteredZero, rcWaited>>
    /\ UNCHANGED <<builderVars, lifeVars>>

\* waitForFences(...) followed at once by resetFences(...); res1 is tested later
CL_WaitReset(r) ==
    /\ pc = "cl_wait"
    /\ r = "Success" => m_InFlightFences[m_CurrentFrame]
    /\ res1' = r
    /\ fenceObserved' = [fenceObserved EXCEPT ![m_CurrentFrame] = (r = "Success")]
    /\ m_InFlightFences' = [m_InFlightFences EXCEPT ![m_CurrentFrame] = FALSE]
    /\ callOps' = {"resetFence"}
    /\ pc' = "cl_acquire"
    /\ UNCHANGED <<m_CurrentFrame, gpuPending, m_FramebufferResized, fbSize, pendingEvents,
                   rcSize, rcReturn, m_Swapchain, swapSize, res2, everSubmitted,
                   rcEnteredZero, rcWaited>>
    /\ UNCHANGED <<builderVars, lifeVars>>

\* acquireNextImageKHR; if (res1 != eSuccess || res2.result != eSuccess) error(...)
CL_Acquire(r) ==
    /\ pc = "cl_acquire"
    /\ res2' = r
    /\ pc' = IF res1 # "Success" \/ r # "Success" THEN "exited" ELSE "cl_record"
    /\ UNCHANGED <<m_CurrentFrame, m_InFlightFences, gpuPending, m_FramebufferResized,
                   fbSize, pendingEvents, rcSize, rcReturn, m_Swapchain, swapSize, res1,
                   callOps, fenceObserved, everSubmitted, rcEnteredZero, rcWaited>>
    /\ UNCHANGED <<builderVars, lifeVars>>

\* commandBuffers[currentFrame].reset(); record_command_buffer(...)
CL_Record ==
    /\ pc = "cl_record"
    /\ callOps' = callOps \cup {"record"}
    /\ pc' = "cl_submit"
    /\ UNCHANGED <<m_CurrentFrame, m_InFlightFences, gpuPending, m_FramebufferResized,
                   fbSize, pendingEvents, rcSize, rcReturn, m_Swapchain, swapSize, res1,
                   res2, fenceObserved, everSubmitted, rcEnteredZero, rcWaited>>
    /\ UNCHANGED <<builderVars, lifeVars>>

\* graphicsQueue.submit(submitInfo, inFlightFences[currentFrame])
CL_Submit ==
    /\ pc = "cl_submit"
    /\ gpuPending[m_CurrentFrame] < MaxPending
    /\ gpuPending' = [gpuPending EXCEPT ![m_CurrentFrame] = @ + 1]
    /\ fenceObserved' = [fenceObserved EXCEPT ![m_CurrentFrame] = FALSE]
    /\ everSubmitted' = [everSubmitted EXCEPT ![m_CurrentFrame] = TRUE]
    /\ callOps' = callOps \cup {"submit"}
    /\ pc' = "cl_present"
    /\ UNCHANGED <<m_CurrentFrame, m_InFlightFences, m_FramebufferResized, fbSize,
                   pendingEvents, rcSize, rcReturn, m_Swapchain, swapSize, res1, res2,
                   rcEnteredZero, rcWaited>>
    /\ UNCHANGED <<builderVars, lifeVars>>

\* if (presentKHR(...) != eSuccess) error(...); currentFrame = (currentFrame + 1) % 2
CL_Present(r) ==
    /\ pc = "cl_present"
    /\ callOps' = callOps \cup {"present"}
    /\ IF r # "Success"
         THEN /\ pc' = "exited"
              /\ UNCHANGED m_CurrentFrame
         ELSE /\ pc' = "cl_poll"
              /\ m_CurrentFrame' = (m_CurrentFrame + 1) % m_FramesInFlight
    /\ UNCHANGED <<m_InFlightFences, gpuPending, m_FramebufferResized, fbSize,
                   pendingEvents, rcSize, rcReturn, m_Swapchain, swapSize, res1, res2,
                   fenceObserved, everSubmitted, rcEnteredZero, rcWaited>>
    /\ UNCHANGED <<builderVars, lifeVars>>

NextClear ==
    \/ \E i \in Slots : GpuComplete(i)
    \/ \E s \in FbSizes : EnvResize(s)
    \/ EnvInput
    \/ CL_PollEvents
    \/ \E r \in WaitResults : CL_WaitReset(r)
    \/ \E r \in AcquireResults : CL_Acquire(r)
    \/ CL_Record
    \/ CL_Submit
    \/ \E r \in PresentResults : CL_Present(r)

SpecClear == InitClear /\ [][NextClear]_vars

\* C6: every draw_frame call that reset the slot's in-flight fence has also made
\* the queue submission that signals it by the time the call is over (returned to
\* the run loop or ended the process), so no fence is left that nothing will signal.
C6_ResetFollowedBySubmit ==
    (pc \in {"poll", "cl_poll", "exited"} /\ "resetFence" \in callOps) =>
        "submit" \in callOps


(***************************************************************************)
(* PipelineBuilder (src/AppBase/src/pipeline_builder.cpp)                  *)
(***************************************************************************)
\* bounds on the builder's inputs
MaxStages == 2

MaxViewports == 1

MaxBuilds == 2

StageKinds == {"Vertex", "Fragment", "Compute"}

Topologies == {"TriangleList", "PatchList"}

PatchPoints == {0, 4}

PipelineTypes == {"Graphics", "Compute"}

\* results the driver can give to a pipeline-creation call: success with a pipeline,
\* success with a null handle, or a failure code
CreateResults == {"Success", "SuccessNull", "ErrorOutOfHostMemory"}

FailureResults == {"tess_error", "mismatch_error", "graphics_error", "compute_error",
                   "null_error"}

InitBuilder ==
    /\ InitFrameAt("poll")
    /\ InitLifeAs("Undefined")
    /\ \E type \in PipelineTypes : InitBuilderAs(type)

\* add_shader_stage(path, stage): reads the file and appends the stage
add_shader_stage(stage) ==
    /\ Len(m_ShaderInfo) < MaxStages
    /\ m_ShaderInfo' = Append(m_ShaderInfo, stage)
    /\ UNCHANGED <<m_PipelineType, m_ShaderModules, topology, patchControlPoints,
                   viewports, scissors, moduleDestroys, layoutDestroys, buildResult,
                   buildModules, buildLayout, buildReturned, builds, depthClamp,
                   lineWidth, deviceFeatures>>
    /\ UNCHANGED <<frameVars, lifeVars, setterVars>>

set_primitive_topology(t) ==
    /\ topology' = t
    /\ UNCHANGED <<m_PipelineType, m_ShaderInfo, m_ShaderModules, patchControlPoints,
                   viewports, scissors, moduleDestroys, layoutDestroys, buildResult,
                   buildModules, buildLayout, buildReturned, builds, depthClamp,
                   lineWidth, deviceFeatures>>
    /\ UNCHANGED <<frameVars, lifeVars, setterVars>>

set_patch_control_points(points) ==
    /\ patchControlPoints' = points
    /\ UNCHANGED <<m_PipelineType, m_ShaderInfo, m_ShaderModules, topology,
                   viewports, scissors, moduleDestroys, layoutDestroys, buildResult,
                   buildModules, buildLayout, buildReturned, builds, depthClamp,
                   lineWidth, deviceFeatures>>
    /\ UNCHANGED <<frameVars, lifeVars, setterVars>>

add_viewport ==
    /\ viewports < MaxViewports
    /\ viewports' = viewports + 1
    /\ UNCHANGED <<m_PipelineType, m_ShaderInfo, m_ShaderModules, topology,
                   patchControlPoints, scissors, moduleDestroys, layoutDestroys,
                   buildResult, buildModules, buildLayout, buildReturned, builds,
                   depthClamp, lineWidth, deviceFeatures>>
    /\ UNCHANGED <<frameVars, lifeVars, setterVars>>

add_scissor ==
    /\ scissors < MaxViewports
    /\ scissors' = scissors + 1
    /\ UNCHANGED <<m_PipelineType, m_ShaderInfo, m_ShaderModules, topology,
                   patchControlPoints, viewports, moduleDestroys, layoutDestroys,
                   buildResult, buildModules, buildLayout, buildReturned, builds,
                   depthClamp, lineWidth, deviceFeatures>>
    /\ UNCHANGED <<frameVars, lifeVars, setterVars>>

\* Handles of the modules the stage loop creates: one per queued stage.
NewModules(base, n) == [k \in 1 .. n |-> base + k]

\* if (patchControlPoints > 0 && topology != ePatchList) throw ...
TessInvalid == patchControlPoints > 0 /\ topology # "PatchList"

\* Variant: the viewport/scissor comparison is missing.
ViewportMismatchNever == FALSE

\* if (viewports.size() != scissors.size()) throw ...
ViewportMismatch == viewports # scissors

\* Variant: the module loop at the end of build() destroys nothing.
DestroyModulesNone(destroys, mods) == destroys

\* for (auto& module : m_ShaderModules) device.destroyShaderModule(module);
\* every entry of the builder's list is destroyed, once per occurrence.
DestroyModules(destroys, mods) ==
    [h \in 1 .. Len(destroys) |->
        destroys[h] + Cardinality({k \in 1 .. Len(mods) : mods[k] = h})]

\* Outcome of the pipeline-creation branch for driver result r.
CreateOutcome(type, r) ==
    IF r = "ErrorOutOfHostMemory"
    THEN (IF type = "Graphics" THEN "graphics_error" ELSE "compute_error")
    ELSE IF r = "SuccessNull" THEN "null_error" ELSE "ok"

\* build(device).  r is the driver's answer to the pipeline-creation call; crash
\* says whether the read of shaderStages[0] on an empty vector (compute builder
\* without stages, undefined behaviour) ends the process.
build(r, crash) ==
    LET n == Len(m_ShaderInfo)
        created == NewModules(Len(moduleDestroys), n)
        mods == m_ShaderModules \o created
        destroys0 == moduleDestroys \o [k \in 1 .. n |-> 0]
        layout == Len(layoutDestroys) + 1
        outcome == CreateOutcome(m_PipelineType, r)
        ub == m_PipelineType = "Compute" /\ n = 0
    IN  /\ builds < MaxBuilds
        /\ builds' = builds + 1
        /\ crash => ub
        /\ m_ShaderModules' = mods
        /\ buildModules' = {created[k] : k \in 1 .. n}
        /\ IF TessInvalid \/ ViewportMismatch
             THEN /\ buildResult' = IF TessInvalid THEN "tess_error" ELSE "mismatch_error"
                  /\ moduleDestroys' = destroys0
                  /\ buildLayout' = 0
                  /\ buildReturned' = FALSE
                  /\ UNCHANGED layoutDestroys
             ELSE /\ buildLayout' = layout
                  /\ IF crash
                       THEN /\ buildResult' = "ub_crash"
                            /\ moduleDestroys' = destroys0
                            /\ layoutDestroys' = Append(layoutDestroys, 0)
                            /\ buildReturned' = FALSE
                       ELSE IF outcome \in {"graphics_error", "compute_error"}
                       THEN /\ buildResult' = outcome
                            /\ moduleDestroys' = destroys0
                            /\ layoutDestroys' = Append(layoutDestroys, 0)
                            /\ buildReturned' = FALSE
                       ELSE /\ buildResult' = outcome
                            /\ moduleDestroys' = DestroyModules(destroys0, mods)
                            /\ layoutDestroys' = Append(layoutDestroys, 1)
                            /\ buildReturned' = (outcome = "ok")
        /\ UNCHANGED <<m_PipelineType, m_ShaderInfo, topology, patchControlPoints,
                       viewports, scissors, depthClamp, lineWidth, deviceFeatures>>
        /\ UNCHANGED <<frameVars, lifeVars, setterVars>>

NextBuilder ==
    \/ \E stage \in StageKinds : add_shader_stage(stage)
    \/ \E t \in Topologies : set_primitive_topology(t)
    \/ \E points \in PatchPoints : set_patch_control_points(points)
    \/ add_viewport
    \/ add_scissor
    \/ \E r \in CreateResults, crash \in BOOLEAN : build(r, crash)

SpecBuilder == InitBuilder /\ [][NextBuilder]_vars

(***************************************************************************)
(* PipelineBuilder: rasterizer settings that need a device feature         *)
(***************************************************************************)
\* line widths handed to set_line_width: 1.0 and a wide line
LineWidths == {1, 2}

\* device features the rasterizer settings depend on
DeviceFeatureNames == {"depthClamp", "wideLines"}

InitFeatures ==
    /\ InitFrameAt("poll")
    /\ InitLifeAs("Undefined")
    /\ \E features \in SUBSET DeviceFeatureNames : InitBuilderOn("Graphics", features)

\* Variant: the setter also puts the line width back to its default.
set_depth_clampResetsWidth(enable) ==
    /\ depthClamp' = enable
    /\ lineWidth' = 1
    /\ UNCHANGED <<m_PipelineType, m_ShaderInfo, m_ShaderModules, topology,
                   patchControlPoints, viewports, scissors, moduleDestroys,
                   layoutDestroys, buildResult, buildModules, buildLayout,
                   buildReturned, builds, deviceFeatures>>
    /\ UNCHANGED <<frameVars, lifeVars, setterVars>>

\* state.rasterizationState.depthClamp = enable
set_depth_clamp(enable) ==
    /\ depthClamp' = enable
    /\ UNCHANGED <<m_PipelineType, m_ShaderInfo, m_ShaderModules, topology,
                   patchControlPoints, viewports, scissors, moduleDestroys,
                   layoutDestroys, buildResult, buildModules, buildLayout,
                   buildReturned, builds, lineWidth, deviceFeatures>>
    /\ UNCHANGED <<frameVars, lifeVars, setterVars>>

\* state.rasterizationState.lineWidth = width
set_line_width(width) ==
    /\ lineWidth' = width
    /\ UNCHANGED <<m_PipelineType, m_ShaderInfo, m_ShaderModules, topology,
                   patchControlPoints, viewports, scissors, moduleDestroys,
                   layoutDestroys, buildResult, buildModules, buildLayout,
                   buildReturned, builds, depthClamp, deviceFeatures>>
    /\ UNCHANGED <<frameVars, lifeVars, setterVars>>

NextFeatures ==
    \/ \E enable \in BOOLEAN : set_depth_clamp(enable)
    \/ \E width \in LineWidths : set_line_width(width)
    \/ add_viewport
    \/ add_scissor
    \/ \E r \in CreateResults : build(r, FALSE)

SpecFeatures == InitFeatures /\ [][NextFeatures]_vars

(***************************************************************************)
(* PipelineBuilder: the fixed-function setters                             *)
(***************************************************************************)
\* minSampleShading arguments: -0.5, 0.0, 0.5, 1.0, 1.5 and a NaN
SampleShadingValues == {Float(-1), Float(0), Float(1), Float(2), Float(3), NaN}

LogicOps == {"NoOp", "And"}

\* render pass handles and subpass indices handed to set_render_pass
RenderPasses == {1}

SubpassIndices == {0, 1}

\* The members of the builder that no fixed-function setter is about.
stageVars == <<m_PipelineType, m_ShaderInfo, m_ShaderModules, topology,
               patchControlPoints, viewports, scissors, moduleDestroys, layoutDestroys,
               buildResult, buildModules, buildLayout, buildReturned, builds,
               deviceFeatures>>

\* PipelineBuilder::state, the fixed-function record (the fields followed here).
state ==
    [depthClamp |-> depthClamp, lineWidth |-> lineWidth,
     sampleShadingEnable |-> sampleShadingEnable, minSampleShading |-> minSampleShading,
     logicOpEnable |-> logicOpEnable, logicOp |-> logicOp]

InitSetters ==
    /\ InitFrameAt("poll")
    /\ InitLifeAs("Undefined")
    /\ InitBuilderAs("Graphics")

\* if (minSampleShading < 0.0f || minSampleShading > 1.0f)
SampleShadingRejected(minSS) == FloatLess(minSS, Float(0)) \/ FloatLess(Float(2), minSS)

\* set_sample_shading: throws std::runtime_error on a rejected value, else writes
\* sampleShadingEnable and minSampleShading.
set_sample_shading(enable, minSS) ==
    /\ IF SampleShadingRejected(minSS)
         THEN /\ thrown' = TRUE
              /\ UNCHANGED <<sampleShadingEnable, minSampleShading>>
         ELSE /\ sampleShadingEnable' = enable
              /\ minSampleShading' = minSS
              /\ UNCHANGED thrown
    /\ UNCHANGED <<logicOpEnable, logicOp, dynamicStates, m_RenderPass, m_SubpassIndex>>
    /\ UNCHANGED <<stageVars, depthClamp, lineWidth, frameVars, lifeVars>>

\* set_logic_op: writes logicOpEnable and logicOp.
set_logic_op(enable, op) ==
    /\ logicOpEnable' = enable
    /\ logicOp' = op
    /\ UNCHANGED <<sampleShadingEnable, minSampleShading, dynamicStates, m_RenderPass,
                   m_SubpassIndex, thrown>>
    /\ UNCHANGED <<stageVars, depthClamp, lineWidth, frameVars, lifeVars>>

\* set_render_pass: m_RenderPass = renderPass; m_SubpassIndex = subpassIndex
set_render_pass(renderPass, subpassIndex) ==
    /\ m_RenderPass' = renderPass
    /\ m_SubpassIndex' = subpassIndex
    /\ UNCHANGED <<sampleShadingEnable, minSampleShading, logicOpEnable, logicOp,
                   dynamicStates, thrown>>
    /\ UNCHANGED <<stageVars, depthClamp, lineWidth, frameVars, lifeVars>>

NextSetters ==
    \/ \E enable \in BOOLEAN : set_depth_clamp(enable)
    \/ \E width \in LineWidths : set_line_width(width)
    \/ \E enable \in BOOLEAN, minSS \in SampleShadingValues :
          set_sample_shading(enable, minSS)
    \/ \E enable \in BOOLEAN, op \in LogicOps : set_logic_op(enable, op)
    \/ \E renderPass \in RenderPasses, subpassIndex \in SubpassIndices :
          set_render_pass(renderPass, subpassIndex)
    \/ \E stage \in StageKinds : add_shader_stage(stage)

SpecSetters == InitSetters /\ [][NextSetters]_vars

\* The record each setter leaves behind, as a function of the record it found.
after_set_depth_clamp(st, enable) == [st EXCEPT !.depthClamp = enable]

after_set_line_width(st, width) == [st EXCEPT !.lineWidth = width]

after_set_sample_shading(st, enable, minSS) ==
    IF SampleShadingRejected(minSS)
      THEN st
      ELSE [st EXCEPT !.sampleShadingEnable = enable, !.minSampleShading = minSS]

after_set_logic_op(st, enable, op) ==
    [st EXCEPT !.logicOpEnable = enable, !.logicOp = op]

(***************************************************************************)
(* PipelineBuilder: the list of dynamic states                             *)
(***************************************************************************)
MaxDynamic == 4

\* vk::DynamicState values: the three that have a set_dynamic_* setter
DynamicStateKinds == {"PrimitiveTopology", "LineWidth", "DepthBias"}

\* number of entries of the list equal to dynamicState
Occurrences(list, dynamicState) ==
    Cardinality({k \in 1 .. Len(list) : list[k] = dynamicState})

\* list.erase(it): the list without its k-th entry
EraseAt(list, k) == SubSeq(list, 1, k - 1) \o SubSeq(list, k + 1, Len(list))

\* toggle_dynamic_state: std::find gives the first entry equal to dynamicState;
\* enable and not found: push_back; disable and found: erase that one entry.
toggle_dynamic_state(list, enable, dynamicState) ==
    LET found == {k \in 1 .. Len(list) : list[k] = dynamicState}
    IN  IF enable /\ found = {} THEN Append(list, dynamicState)
        ELSE IF ~enable /\ found # {}
               THEN EraseAt(list, CHOOSE k \in found : \A j \in found : k <= j)
        ELSE list

\* state.dynamicStates.push_back(dynamicState)
add_dynamic_state(dynamicState) ==
    /\ Len(dynamicStates) < MaxDynamic
    /\ dynamicStates' = Append(dynamicStates, dynamicState)
    /\ UNCHANGED <<sampleShadingEnable, minSampleShading, logicOpEnable, logicOp,
                   m_RenderPass, m_SubpassIndex, thrown>>
    /\ UNCHANGED <<stageVars, depthClamp, lineWidth, frameVars, lifeVars>>

\* A set_dynamic_* setter: toggle_dynamic_state(enable, its dynamic state).
set_dynamic(enable, dynamicState) ==
    /\ Len(toggle_dynamic_state(dynamicStates, enable, dynamicState)) <= MaxDynamic
    /\ dynamicStates' = toggle_dynamic_state(dynamicStates, enable, dynamicState)
    /\ UNCHANGED <<sampleShadingEnable, minSampleShading, logicOpEnable, logicOp,
                   m_RenderPass, m_SubpassIndex, thrown>>
    /\ UNCHANGED <<stageVars, depthClamp, lineWidth, frameVars, lifeVars>>

set_dynamic_topology(enable) == set_dynamic(enable, "PrimitiveTopology")

set_dynamic_line_width(enable) == set_dynamic(enable, "LineWidth")

set_dynamic_depth_bias(enable) == set_dynamic(enable, "DepthBias")

NextDynamic ==
    \/ \E dynamicState \in DynamicStateKinds : add_dynamic_state(dynamicState)
    \/ \E enable \in BOOLEAN : set_dynamic_topology(enable)
    \/ \E enable \in BOOLEAN : set_dynamic_line_width(enable)
    \/ \E enable \in BOOLEAN : set_dynamic_depth_bias(enable)

SpecDynamic == InitSetters /\ [][NextDynamic]_vars

(***************************************************************************)
(* Properties of PipelineBuilder                                           *)
(***************************************************************************)
\* C2: after every failed build(), each shader module created by that call has been
\* destroyed exactly once and the pipeline layout created by it (if any) has been
\* destroyed exactly once.
C2_FailureReleasesEverything ==
    buildResult \in FailureResults =>
        /\ \A h \in buildModules : moduleDestroys[h] = 1
        /\ (buildLayout # 0 => layoutDestroys[buildLayout] = 1)

\* C3: the builder never holds two queued stages of the same kind (a second
\* add_shader_stage of a kind already present is refused and changes nothing).
C3_OneStagePerKind ==
    \A i, j \in 1 .. Len(m_ShaderInfo) : i # j => m_ShaderInfo[i] # m_ShaderInfo[j]

\* C4: a build() that ends with the tessellation-configuration error has created no
\* shader module and no pipeline layout.
C4_TessFailsBeforeDriver ==
    buildResult = "tess_error" => (buildModules = {} /\ buildLayout = 0)

\* C8 (as stated): after a successful build() every module created by the call has
\* been destroyed and the pipeline layout created by the call is still alive.
C8_LayoutSurvivesSuccess ==
    buildResult = "ok" =>
        /\ \A h \in buildModules : moduleDestroys[h] >= 1
        /\ layoutDestroys[buildLayout] = 0

\* C8 (amended): after a successful build() every module created by the call has
\* been destroyed exactly once and the pipeline layout created by the call has been
\* destroyed exactly once as well; only the pipeline is handed to the caller.
C8_SuccessDestroysModulesAndLayout ==
    buildResult = "ok" =>
        /\ buildReturned
        /\ \A h \in buildModules : moduleDestroys[h] = 1
        /\ buildLayout # 0 /\ layoutDestroys[buildLayout] = 1

\* A build() with two stages has succeeded.
C8_Witness ==
    buildResult = "ok" /\ Cardinality(buildModules) = 2 /\ buildReturned

C14_ComputeNeedsOneStage ==
    [][(builds' # builds /\ m_PipelineType = "Compute" /\ Len(m_ShaderInfo) # 1) =>
         ~buildReturned']_vars

\* C15: a build() whose state enables depth clamp on a device without the depth-clamp
\* feature, or sets a line width other than 1.0 on a device without wide lines, fails
\* with the feature-not-supported error before a layout or pipeline is created.
C15_MissingFeatureFailsBuild ==
    [][(/\ builds' # builds
        /\ \/ (depthClamp /\ "depthClamp" \notin deviceFeatures)
           \/ (lineWidth # 1 /\ "wideLines" \notin deviceFeatures)) =>
         (buildResult' = "feature_error" /\ ~buildReturned' /\ buildLayout' = 0)]_vars

\* C21: over any sequence of build() calls on one builder no shader module is
\* destroyed more than once.
C21_ModuleDestroyedOnce ==
    \A h \in 1 .. Len(moduleDestroys) : moduleDestroys[h] <= 1

SettersCommute ==
    \A e1, e2 \in BOOLEAN, width \in LineWidths, minSS \in SampleShadingValues,
       op \in LogicOps :
        LET dc(st) == after_set_depth_clamp(st, e1)
            lw(st) == after_set_line_width(st, width)
            ss(st) == after_set_sample_shading(st, e2, minSS)
            lo(st) == after_set_logic_op(st, e2, op)
        IN  /\ dc(lw(state)) = lw(dc(state))
            /\ dc(ss(state)) = ss(dc(state))
            /\ dc(lo(state)) = lo(dc(state))
            /\ lw(ss(state)) = ss(lw(state))
            /\ lw(lo(state)) = lo(lw(state))
            /\ ss(lo(state)) = lo(ss(state))

C29_DisableRemovesEnableIdempotent ==
    [][\A dynamicState \in DynamicStateKinds :
         /\ set_dynamic(FALSE, dynamicState) =>
              Occurrences(dynamicStates', dynamicState) = 0
         /\ (set_dynamic(TRUE, dynamicState)
               /\ Occurrences(dynamicStates, dynamicState) > 0) =>
              Occurrences(dynamicStates', dynamicState)
                = Occurrences(dynamicStates, dynamicState)]_vars

\* a float is inside [0, 1]
InUnitInterval(x) == ~x.nan /\ 0 <= x.v /\ x.v <= 2

\* C30: set_sample_shading with a value outside [0, 1] throws and changes nothing of
\* the builder; with a value inside [0, 1] it writes sampleShadingEnable and
\* minSampleShading and nothing else.
C30_SampleShadingRange ==
    [][\A enable \in BOOLEAN, minSS \in SampleShadingValues :
         set_sample_shading(enable, minSS) =>
           IF InUnitInterval(minSS)
             THEN /\ sampleShadingEnable' = enable
                  /\ minSampleShading' = minSS
                  /\ UNCHANGED <<depthClamp, lineWidth, logicOpEnable, logicOp,
                                 m_ShaderInfo, m_RenderPass, m_SubpassIndex, thrown>>
             ELSE /\ thrown'
                  /\ UNCHANGED <<state, m_ShaderInfo, m_RenderPass, m_SubpassIndex>>]_vars

====
